---- MODULE Spec2Model ----
(***************************************************************************)
(* SetLog database seeding script (scripts/db_scripts/db_population/       *)
(* populate_database.py) as a state machine.                               *)
(*                                                                         *)
(* The state is the storage behind the SQLAlchemy session (committed rows  *)
(* and the rows of the open transaction), the local variables of main()    *)
(* and of the stage it is running, and the position in the code.           *)
(*                                                                         *)
(* The specifications share the stages of main():                          *)
(*   Spec       runs whole seeding runs, and runs started again on the     *)
(*              storage an earlier run left; one action per draft session  *)
(*              of the synthesizer loop (lines 203-325), whose per-session *)
(*              values are not retained between iterations;                *)
(*   SpecDraft  runs the stages and then the first MaxDrafts iterations of *)
(*              the synthesizer loop statement group by statement group,   *)
(*              retaining the session and the sets that are generated;     *)
(*   SpecAssign runs the stages up to the end of create_user_programs on   *)
(*              larger program catalogs;                                   *)
(*   SpecScenario, SpecFree, SpecOrder and SpecWeekday run the steps of    *)
(*              SpecDraft on other fixtures: one squat entry and a Monday  *)
(*              clock, small and large exercise catalogs, programs whose   *)
(*              entries are stored out of position order, an entry on day  *)
(*              1 with drafts on a Monday and a Tuesday;                   *)
(*   SpecWeight and SpecReps call generate_realistic_weight and            *)
(*              generate_realistic_reps alone, on arguments drawn at the   *)
(*              start.                                                     *)
(*                                                                         *)
(* The random draws are taken from the ends of their ranges; rng says      *)
(* which of them vary in a run.  datetime.now() is one instant per run.    *)
(*                                                                         *)
(* Abstractions: an entity is the record of the columns the script's       *)
(* control flow and the data-model constraints read (name, description,    *)
(* password_hash, owner_id, created_by, ended_at are left out); uuid4()    *)
(* yields the next unused number of its table; the sessions table is its   *)
(* row count and the sets table the number of sessions that own rows in    *)
(* it, the rows of the session being generated being kept in set_keys.     *)
(***************************************************************************)
EXTENDS Integers, Sequences, FiniteSets, TLC

VARIABLES
    files,            \* the three fixture files under data/
    now,              \* datetime.now() as line 189 reads it
    rng,              \* the values the random module and the hash seed can take
    at_start,         \* the rows durably stored when the run was started
    calls,            \* SpecWeight, SpecReps: the calls of the function observed
    row_order,        \* the order in which the server returns rows of a SELECT
    midnights,        \* midnights from the last datetime.now() read to line 189
    hashseed,         \* the process's string-hash seed, None until hash() is used
    pc,               \* position in main()
    exit_code,        \* process status "0" or "1" once main() has ended
    error,            \* the exception main()'s except block is handling
    rolled_back,      \* db_session.rollback() was called by the ended/ending run
    commits,          \* successful commit() calls of the current run
    committed,        \* rows durably stored
    pending,          \* rows added to the session since the last commit
    users,            \* main(): users
    exercises,        \* main(): exercises
    programs,         \* main(): programs
    user_programs,    \* main(): user_programs (being built, then returned)
    u,                \* index of the user a "for user in users" loop is at
    num_workouts,     \* generate_realistic_workout_data: num_workouts
    draft,            \* iterations of "for _ in range(num_workouts)" completed
    sessions_created, \* generate_realistic_workout_data: sessions_created
    lp,               \* position inside generate_realistic_workout_data
    session_obj,      \* SpecDraft: the Session being generated
    day_exercises,    \* SpecDraft: day_exercises of the last program-based draft
    use_program,      \* SpecDraft: truth value of use_program
    work,             \* SpecDraft: exercises the set loops iterate over
    ex_idx,           \* SpecDraft: position in work
    num_sets,         \* SpecDraft: num_sets of the current exercise
    set_num,          \* SpecDraft: set_num of the last set added
    set_keys,         \* SpecDraft: (exercise_id, set_index) of the session's sets
    set_obj           \* SpecDraft: the last Set added

vars == <<files, now, rng, at_start, calls, row_order, midnights, hashseed,
          pc, exit_code, error,
          rolled_back, commits, committed, pending, users, exercises, programs,
          user_programs, u, num_workouts, draft, sessions_created, lp, session_obj, day_exercises, use_program,
          work, ex_idx, num_sets, set_num, set_keys, set_obj>>

mainLocals == <<users, exercises, programs, user_programs>>
loopLocals == <<u, num_workouts, draft, sessions_created, lp>>
draftLocals == <<session_obj, day_exercises, use_program, work, ex_idx,
                 num_sets, set_num, set_keys, set_obj>>
\* What a run is given, and the clock, which create_user_programs reads.
given == <<files, now, rng, at_start, calls, row_order>>
inputs == <<given, midnights>>

\* None, for a name or column that holds a record or a list; a column that
\* holds a number or a text is <<>> for None and <<v>> for the value v.
NoValue == [none |-> TRUE]
None == <<>>
Some(v) == <<v>>
\* A local name that no statement has bound yet.
Unbound == <<[unbound |-> TRUE]>>
Missing == "missing"

(***************************************************************************)
(* Bounds of the model.                                                    *)
(***************************************************************************)
\* SpecDraft follows this many iterations of the draft loop in detail.
MaxDrafts == 2

(***************************************************************************)
(* Program constants.                                                      *)
(***************************************************************************)
HorizonDays == 365
CommitEvery == 100
MinStartDaysAgo == 30
MaxStartDaysAgo == 365
MinHour == 6
MaxHour == 20
MaxMinute == 59
MaxAssignments == 3

(***************************************************************************)
(* Sequence helpers.                                                       *)
(***************************************************************************)
Range(s) == {s[i] : i \in 1..Len(s)}

NoDup(s) == \A i, j \in 1..Len(s) : i # j => s[i] # s[j]

Min(a, b) == IF a <= b THEN a ELSE b

Max(a, b) == IF a >= b THEN a ELSE b

\* The subsequence of s whose elements satisfy Test, in order (a list
\* comprehension with an if clause).
Filter(s, Test(_)) == SelectSeq(s, Test)

\* All lists of k distinct elements of the list s, as random.sample(s, k)
\* can return them (positions are sampled, so equal values count twice).
RECURSIVE SamplesOfIdx(_, _)
SamplesOfIdx(idx, k) ==
    IF k = 0 THEN {<<>>}
    ELSE UNION {{<<i>> \o t : t \in SamplesOfIdx(idx \ {i}, k - 1)} : i \in idx}

\* A sample drawn with replacement (random.choices instead of random.sample).
SamplesWithReplacement(s, k) == [1..k -> Range(s)]

Samples(s, k) ==
    {[j \in 1..k |-> s[t[j]]] : t \in SamplesOfIdx(1..Len(s), k)}

(***************************************************************************)
(* datetime, timedelta and the two string formats the script uses.         *)
(* A datetime is [day, hour, minute, second, microsecond] with day the     *)
(* proleptic Gregorian ordinal (date.toordinal()).                         *)
(***************************************************************************)
SecondsOfDay(dt) == (dt.hour * 60 + dt.minute) * 60 + dt.second

EarlierInDay(a, b) ==
    \/ SecondsOfDay(a) < SecondsOfDay(b)
    \/ SecondsOfDay(a) = SecondsOfDay(b) /\ a.microsecond < b.microsecond

\* (a - b).days: timedelta normalises seconds and microseconds to be
\* non-negative, so days is the floor of the difference in days.
TimedeltaDays(a, b) == a.day - b.day - (IF EarlierInDay(a, b) THEN 1 ELSE 0)

\* dt + timedelta(days=n)
PlusDays(dt, n) == [dt EXCEPT !.day = @ + n]

\* dt.replace(hour=h, minute=m)
Replace(dt, h, m) == [dt EXCEPT !.hour = h, !.minute = m]

\* dt.weekday(): Monday is 0, Sunday is 6.
Weekday(dt) == (dt.day + 6) % 7

\* dt.strftime("%Y-%m-%d"): the calendar date alone.
StrftimeDate(dt) == [day |-> dt.day]

\* datetime.strptime(s, "%Y-%m-%d"): midnight of that date.
StrptimeDate(s) ==
    [day |-> s.day, hour |-> 0, minute |-> 0, second |-> 0, microsecond |-> 0]

\* dt.strftime("%Y-%m-%d %H:%M:%S"): the microseconds are dropped.
StrftimeStamp(dt) ==
    [day |-> dt.day, hour |-> dt.hour, minute |-> dt.minute, second |-> dt.second]

(***************************************************************************)
(* Inputs: the fixture files, the clock, the hash seed, and the values the *)
(* random module is taken to draw.                                         *)
(***************************************************************************)
UsersOne == <<"ann@example.com">>
UsersTwo == <<"ann@example.com", "bob@example.com">>

CatalogTwo == <<"bicep-curls", "push-ups">>
CatalogThree == <<"squat", "plank", "kettlebell-swing">>
CatalogEight ==
    <<"plank", "push-ups", "pull-ups", "dips", "burpees", "box-jumps",
      "jumping-jacks", "high-knees">>

Entry(slug, dow, pos) ==
    [exercise_slug |-> slug, day_of_week |-> dow, position |-> pos]

\* One entry: squat on day 0, position 1.
ProgSquat == [name |-> "squat-day", entries |-> <<Entry("squat", 0, 1)>>]
\* Day 0 lists squat at positions 1 and 3; day 3 has one entry.
ProgTwice ==
    [name |-> "squat-twice",
     entries |-> <<Entry("squat", 0, 1), Entry("plank", 0, 2),
                   Entry("squat", 0, 3), Entry("kettlebell-swing", 3, 1)>>]
\* Entries on every weekday DayDraws reaches (Monday, Thursday, Friday).
ProgCurls ==
    [name |-> "curls",
     entries |-> <<Entry("bicep-curls", 0, 1), Entry("push-ups", 3, 1),
                   Entry("push-ups", 4, 1)>>]
\* Day 0 lists plank at position 2 before squat at position 1.
ProgShuffled ==
    [name |-> "shuffled",
     entries |-> <<Entry("plank", 0, 2), Entry("squat", 0, 1),
                   Entry("kettlebell-swing", 3, 1)>>]
\* One entry on day 1.
ProgDayOne == [name |-> "day-one", entries |-> <<Entry("squat", 1, 1)>>]
ProgUnknownSlug ==
    [name |-> "typo", entries |-> <<Entry("squat", 0, 1), Entry("sqat", 0, 2)>>]
ProgNoEntries == [name |-> "empty", entries |-> <<>>]
ProgPlank == [name |-> "plank-day", entries |-> <<Entry("plank", 3, 1)>>]

Files(us, ex, pr) == [users |-> us, exercises |-> ex, programs |-> pr]

\* 2026-10-30 15:29:07.000123, a Friday.
NowChoices ==
    {[day |-> 739919, hour |-> 15, minute |-> 29, second |-> 7, microsecond |-> 123]}

GatewayOutcomes == {"ok", "error"}

\* What the random draws and the hash seed of a run are taken from: rng is
\* one of these profiles.  Spreads are subsets of {"lo", "hi"}, the ends of
\* the range a random.randint draws from; start_days_ago and days are the
\* numbers drawn.
RngWide ==
    [start_days_ago |-> {MinStartDaysAgo, MaxStartDaysAgo},  \* randint(30, 365)
     frequency |-> {250, 450},            \* random.uniform(2.5, 4.5), hundredths
     days |-> {0, 4, 361, 365},           \* random.randint(0, total_days)
     times |-> {<<"lo", "lo">>, <<"hi", "hi">>},  \* randint(6, 20), randint(0, 59)
     num_exercises |-> {"lo", "hi"},      \* random.randint(3, 8)
     num_sets |-> {"lo", "hi"},           \* random.randint(3, 6), (2, 5)
     jitter |-> {80, 120},                \* random.uniform(0.8, 1.2), hundredths
     base_reps |-> {"lo", "hi"},          \* random.randint of base_reps
     fatigue |-> {"lo", "hi"},            \* random.randint(1, 3)
     rpe_kinds |-> {"none", "whole", "half"},
     rpe_values |-> {"lo", "hi"},         \* random.randint(6, 10), (6, 9)
     hash_seeds |-> 0..8,                 \* PYTHONHASHSEED, unset: random
     midnights |-> {0},                   \* midnights passing during the stages
     row_order |-> {"insertion"},         \* SELECT without ORDER BY
     stdout |-> {"utf-8", "ascii"}]       \* sys.stdout.encoding; "ascii" is any
                                          \* encoding without U+274C

\* One date (a Monday morning) and one value for each draw of the set loops.
RngNarrow ==
    [RngWide EXCEPT !.start_days_ago = {MinStartDaysAgo}, !.frequency = {250},
                    !.days = {4}, !.times = {<<"lo", "lo">>},
                    !.num_sets = {"lo"}, !.jitter = {100},
                    !.base_reps = {"lo"}, !.fatigue = {"lo"},
                    !.rpe_kinds = {"none"}, !.rpe_values = {"lo"},
                    !.hash_seeds = {0}]

\* Every date of RngWide.
RngDates ==
    [RngNarrow EXCEPT !.start_days_ago = RngWide.start_days_ago,
                      !.days = RngWide.days, !.times = RngWide.times]

\* Every number of sets.
RngSets == [RngNarrow EXCEPT !.num_sets = RngWide.num_sets]

\* Every weight: the jitter and the hash seed.
RngWeights ==
    [RngNarrow EXCEPT !.jitter = RngWide.jitter,
                      !.hash_seeds = RngWide.hash_seeds]

\* Every repetition count and every RPE.
RngReps ==
    [RngNarrow EXCEPT !.base_reps = RngWide.base_reps,
                      !.fatigue = RngWide.fatigue,
                      !.rpe_kinds = RngWide.rpe_kinds,
                      !.rpe_values = RngWide.rpe_values]

\* Every date, with or without a midnight between the datetime.now() of
\* line 164 and the one of line 189.
RngMidnight == [RngDates EXCEPT !.midnights = {0, 1}]

\* Every order in which the server can return the rows of a SELECT that
\* has no ORDER BY.
RngOrders == [RngNarrow EXCEPT !.row_order = {"insertion", "any"}]

\* The end of the range lo..hi that the spread element names.
End(lo, hi, which) == IF which = "lo" THEN lo ELSE hi

Ends(lo, hi, spread) == {End(lo, hi, which) : which \in spread}

HashSeeds == rng.hash_seeds
StartDaysAgoDraws == rng.start_days_ago
\* random.randint(1, 3) of create_user_programs.
NumAssignmentsDraws == 1..MaxAssignments
FrequencyDraws == rng.frequency
\* With now = NowChoices: Thursday, Monday, Monday and Friday of the horizon.
DayDraws == rng.days
TimeDraws ==
    {<<End(MinHour, MaxHour, t[1]), End(0, MaxMinute, t[2])>> : t \in rng.times}

(***************************************************************************)
(* Storage: tables and the constraints the models declare.                 *)
(***************************************************************************)
EmptyTables ==
    [users |-> <<>>, exercises |-> <<>>, programs |-> <<>>,
     program_entries |-> <<>>, user_programs |-> <<>>,
     sessions |-> 0, sets |-> 0, dup_sets |-> FALSE]

\* What a commit makes of the stored rows c and the transaction's rows p.
Merge(c, p) ==
    [users |-> c.users \o p.users,
     exercises |-> c.exercises \o p.exercises,
     programs |-> c.programs \o p.programs,
     program_entries |-> c.program_entries \o p.program_entries,
     user_programs |-> c.user_programs \o p.user_programs,
     sessions |-> c.sessions + p.sessions,
     sets |-> c.sets + p.sets,
     dup_sets |-> FALSE]

Emails(rows) == [i \in 1..Len(rows) |-> rows[i].email]
Slugs(rows) == [i \in 1..Len(rows) |-> rows[i].slug]
DayPositions(rows) ==
    [i \in 1..Len(rows) |->
        <<rows[i].program_id, rows[i].day_of_week, rows[i].position>>]

\* A users table without the unique index on email.
NoEmailConstraint(c, p) == TRUE

\* User.email unique=True
UserEmailUnique(c, p) == NoDup(Emails(c.users \o p.users))
\* Exercise.slug unique=True
ExerciseSlugUnique(c, p) == NoDup(Slugs(c.exercises \o p.exercises))
\* uq_program_entry_day_position
EntryDayPositionUnique(c, p) ==
    NoDup(DayPositions(c.program_entries \o p.program_entries))
\* uq_set_session_exercise_index, for the rows of the open transaction
SetIndexUnique(p) == ~p.dup_sets

\* A flush of p on top of c violates no constraint.
ConstraintsOk(c, p) ==
    /\ UserEmailUnique(c, p)
    /\ ExerciseSlugUnique(c, p)
    /\ EntryDayPositionUnique(c, p)
    /\ SetIndexUnique(p)

(***************************************************************************)
(* main(): the try block runs the five stages; an exception leaves the     *)
(* stage at once and is handled by the except block.                       *)
(***************************************************************************)
ResetLoop ==
    /\ u' = 0
    /\ num_workouts' = 0
    /\ draft' = 0
    /\ sessions_created' = 0
    /\ lp' = "none"

ResetDraft ==
    /\ session_obj' = NoValue
    /\ day_exercises' = Unbound
    /\ use_program' = FALSE
    /\ work' = <<>>
    /\ ex_idx' = 0
    /\ num_sets' = 0
    /\ set_num' = 0
    /\ set_keys' = <<>>
    /\ set_obj' = NoValue

\* The exception exc propagates to main(): the frame of the stage is gone,
\* the transaction still holds the rows p that were added.
Raise(exc, p) ==
    /\ pc' = "except"
    /\ error' = exc
    /\ pending' = p
    /\ ResetLoop
    /\ ResetDraft
    /\ UNCHANGED <<inputs, hashseed, committed, commits, exit_code, rolled_back>>

\* session.commit() succeeds on the transaction's rows p.
Commit(p) ==
    /\ committed' = Merge(committed, p)
    /\ pending' = EmptyTables
    /\ commits' = commits + 1

\* A flush or commit of the rows p goes through: the gateway answers and
\* no constraint is violated.
GatewayAccepts(gw, p) == gw = "ok" /\ ConstraintsOk(committed, p)

\* The stage returns and main() goes on at position next.
Return(next) ==
    /\ pc' = next
    /\ UNCHANGED <<inputs, hashseed, exit_code, error, rolled_back>>

UserRows(data, base) ==
    [i \in 1..Len(data) |-> [id |-> base + i, email |-> data[i]]]

create_users ==
    /\ pc = "create_users"
    /\ IF files.users = Missing
       THEN Raise("FileNotFoundError", pending) /\ UNCHANGED mainLocals
       ELSE LET rows == UserRows(files.users, Len(committed.users))
                p == [pending EXCEPT !.users = @ \o rows]
            IN \E gw \in GatewayOutcomes :
                IF GatewayAccepts(gw, p)
                THEN /\ Commit(p)
                     /\ Return("create_exercises")
                     /\ users' = rows
                     /\ UNCHANGED <<exercises, programs, user_programs>>
                     /\ UNCHANGED <<loopLocals, draftLocals>>
                ELSE Raise("SQLAlchemyError", p) /\ UNCHANGED mainLocals

ExerciseRows(data, base) ==
    [i \in 1..Len(data) |-> [id |-> base + i, slug |-> data[i]]]

create_exercises ==
    /\ pc = "create_exercises"
    /\ IF files.exercises = Missing
       THEN Raise("FileNotFoundError", pending) /\ UNCHANGED mainLocals
       ELSE IF files.exercises # <<>> /\ users = <<>>
       THEN Raise("IndexError", pending) /\ UNCHANGED mainLocals   \* random.choice([])
       ELSE LET rows == ExerciseRows(files.exercises, Len(committed.exercises))
                p == [pending EXCEPT !.exercises = @ \o rows]
            IN \E gw \in GatewayOutcomes :
                IF GatewayAccepts(gw, p)
                THEN /\ Commit(p)
                     /\ Return("create_programs")
                     /\ exercises' = rows
                     /\ UNCHANGED <<users, programs, user_programs>>
                     /\ UNCHANGED <<loopLocals, draftLocals>>
                ELSE Raise("SQLAlchemyError", p) /\ UNCHANGED mainLocals

(***************************************************************************)
(* create_programs: per program add, flush, then its entries; one commit.  *)
(***************************************************************************)
\* exercise_lookup = {ex.slug: ex for ex in exercises}: the last one wins.
KnownSlug(slug) == \E i \in 1..Len(exercises) : exercises[i].slug = slug

Lookup(slug) ==
    LET i == CHOOSE i \in 1..Len(exercises) :
                 /\ exercises[i].slug = slug
                 /\ \A j \in (i + 1)..Len(exercises) : exercises[j].slug # slug
    IN exercises[i]

ProgramRows(data, base) ==
    [j \in 1..Len(data) |-> [id |-> base + j, name |-> data[j].name]]

\* Entries of data[1..j-1], plus the first k entries of data[j].
RECURSIVE EntryCount(_, _)
EntryCount(data, j) ==
    IF j = 0 THEN 0 ELSE EntryCount(data, j - 1) + Len(data[j].entries)

EntryRow(data, j, k, pbase, ebase) ==
    [id |-> ebase + EntryCount(data, j - 1) + k,
     program_id |-> pbase + j,
     exercise_id |-> Lookup(data[j].entries[k].exercise_slug).id,
     day_of_week |-> data[j].entries[k].day_of_week,
     position |-> data[j].entries[k].position]

RECURSIVE EntryRowsUpTo(_, _, _, _, _)
EntryRowsUpTo(data, j, k, pbase, ebase) ==
    IF j = 0 THEN <<>>
    ELSE EntryRowsUpTo(data, j - 1,
                       IF j = 1 THEN 0 ELSE Len(data[j - 1].entries), pbase, ebase)
         \o [i \in 1..k |-> EntryRow(data, j, i, pbase, ebase)]

\* Number of entries of data[j] before the first whose slug is unknown; all
\* of them when every slug is known.
KnownPrefix(data, j) ==
    LET bad == {k \in 1..Len(data[j].entries) :
                    ~KnownSlug(data[j].entries[k].exercise_slug)}
    IN IF bad = {} THEN Len(data[j].entries)
       ELSE (CHOOSE k \in bad : \A m \in bad : k <= m) - 1

KeyErrorIn(data, j) == KnownPrefix(data, j) < Len(data[j].entries)

\* The transaction when program j has been added and k of its entries.
PendingPrograms(data, j, k) ==
    LET pbase == Len(committed.programs)
        ebase == Len(committed.program_entries)
    IN [pending EXCEPT
          !.programs = @ \o SubSeq(ProgramRows(data, pbase), 1, j),
          !.program_entries = @ \o EntryRowsUpTo(data, j, k, pbase, ebase)]

\* Iteration j of the loop over programs_data fails whatever the gateway
\* does: its flush meets a constraint violation, or a slug is unknown.
FlushViolates(data, j) == ~ConstraintsOk(committed, PendingPrograms(data, j, 0))

IterationFails(data, j) == FlushViolates(data, j) \/ KeyErrorIn(data, j)

IterationReached(data, j) == \A i \in 1..(j - 1) : ~IterationFails(data, i)

create_programs ==
    /\ pc = "create_programs"
    /\ LET data == files.programs IN
       IF data = Missing
       THEN Raise("FileNotFoundError", pending) /\ UNCHANGED mainLocals
       ELSE IF data # <<>> /\ users = <<>>
       THEN Raise("IndexError", pending) /\ UNCHANGED mainLocals   \* random.choice([])
       ELSE
         \/ \* session.flush() of iteration j raises
            \E j \in 1..Len(data) :
              /\ IterationReached(data, j)
              /\ \E gw \in GatewayOutcomes :
                    ~GatewayAccepts(gw, PendingPrograms(data, j, 0))
              /\ Raise("SQLAlchemyError", PendingPrograms(data, j, 0))
              /\ UNCHANGED mainLocals
         \/ \* exercise_lookup[...] of iteration j raises KeyError
            \E j \in 1..Len(data) :
              /\ IterationReached(data, j)
              /\ ~FlushViolates(data, j)
              /\ KeyErrorIn(data, j)
              /\ Raise("KeyError", PendingPrograms(data, j, KnownPrefix(data, j)))
              /\ UNCHANGED mainLocals
         \/ \* the loop ends; session.commit()
            /\ IterationReached(data, Len(data) + 1)
            /\ LET n == Len(data)
                   p == PendingPrograms(data, n,
                            IF n = 0 THEN 0 ELSE Len(data[n].entries))
               IN \E gw \in GatewayOutcomes :
                    IF GatewayAccepts(gw, p)
                    THEN /\ Commit(p)
                         /\ Return("create_user_programs")
                         /\ programs' = ProgramRows(data, Len(committed.programs))
                         /\ UNCHANGED <<users, exercises, user_programs>>
                         /\ UNCHANGED <<loopLocals, draftLocals>>
                    ELSE Raise("SQLAlchemyError", p) /\ UNCHANGED mainLocals

(***************************************************************************)
(* create_user_programs: one step per user, then the commit.               *)
(***************************************************************************)
\* start_date: (datetime.now() - timedelta(days=d)).strftime("%Y-%m-%d"),
\* the clock being read m midnights before line 189 reads it (of this
\* reading the date alone is used).
StartDate(m, d) ==
    LET clock == PlusDays(now, 0 - m)
    IN StrftimeDate(PlusDays(clock, 0 - d))

\* The draws of the assignments of one user, (days, active), each with the
\* reading of the clock made for it: the clock does not go back.
AssignmentDraws(n) ==
    {d \in [1..n -> StartDaysAgoDraws \X BOOLEAN \X (0..midnights)] :
        \A i \in 1..(n - 1) : d[i][3] >= d[i + 1][3]}

UserProgramRows(user, assigned, draws, base) ==
    [i \in 1..Len(assigned) |->
        [id |-> base + i,
         user_id |-> user.id,
         program_id |-> assigned[i].id,
         start_date |-> StartDate(draws[i][3], draws[i][1]),
         active |-> draws[i][2]]]

\* The size of the sample: min(num_assignments, len(programs)).
SampleSize(num_assignments) == Min(num_assignments, Len(programs))

assign_user ==
    /\ pc = "create_user_programs"
    /\ u < Len(users)
    /\ \E num_assignments \in NumAssignmentsDraws :
       \E assigned_programs \in Samples(programs, SampleSize(num_assignments)) :
       \E draws \in AssignmentDraws(Len(assigned_programs)) :
          LET base == Len(committed.user_programs) + Len(pending.user_programs)
              rows == UserProgramRows(users[u + 1], assigned_programs, draws, base)
          IN /\ user_programs' = user_programs \o rows
             /\ pending' = [pending EXCEPT !.user_programs = @ \o rows]
             /\ midnights' = IF draws = <<>> THEN midnights
                              ELSE draws[Len(draws)][3]
    /\ u' = u + 1
    /\ UNCHANGED <<given, hashseed, pc, exit_code, error, rolled_back, commits, committed>>
    /\ UNCHANGED <<users, exercises, programs>>
    /\ UNCHANGED <<num_workouts, draft, sessions_created, lp, draftLocals>>

\* A create_user_programs that returns without its session.commit().
ReturnUncommitted ==
    /\ pc = "create_user_programs"
    /\ u = Len(users)
    /\ Return("generate")
    /\ u' = 0
    /\ lp' = "user"
    /\ UNCHANGED <<commits, committed, pending>>
    /\ UNCHANGED <<num_workouts, draft, sessions_created>>
    /\ UNCHANGED <<mainLocals, draftLocals>>

commit_user_programs ==
    /\ pc = "create_user_programs"
    /\ u = Len(users)
    /\ \E gw \in GatewayOutcomes :
        IF GatewayAccepts(gw, pending)
        THEN /\ Commit(pending)
             /\ Return("generate")
             /\ u' = 0
             /\ lp' = "user"
             /\ UNCHANGED <<num_workouts, draft, sessions_created>>
             /\ UNCHANGED <<mainLocals, draftLocals>>
        ELSE /\ Raise("SQLAlchemyError", pending)
             /\ UNCHANGED <<users, exercises, programs>>
             /\ user_programs' = <<>>

(***************************************************************************)
(* generate_realistic_workout_data: what one draft session computes.       *)
(***************************************************************************)
\* start_date = datetime.now() - timedelta(days=365); end_date = now
HorizonStart == PlusDays(now, 0 - HorizonDays)

TotalDays == TimedeltaDays(now, HorizonStart)

\* round(total_days * workout_frequency / 7)
NumWorkoutsRounded(freq) == (TotalDays * freq + 350) \div 700

\* int(total_days * workout_frequency / 7), the frequency in hundredths
NumWorkouts(freq) == (TotalDays * freq) \div 700

\* The filter without the test of the owner.
IsActiveOfAnyUser(user, up) == up.active

\* [up for up in user_programs if up.user_id == user.id and up.active]
IsActiveOf(user, up) == up.user_id = user.id /\ up.active

UserActivePrograms(user) ==
    LET Test(up) == IsActiveOf(user, up) IN Filter(user_programs, Test)

\* workout_date, from the draws k = randint(0, total_days) and t = (hour, minute)
WorkoutDate(k, t) == Replace(PlusDays(HorizonStart, k), t[1], t[2])

\* random.choice([True, False]) and user_active_programs, as a truth value
UseProgram(coin, user_active_programs) == coin /\ user_active_programs # <<>>

\* next(p for p in programs if p.id == user_program.program_id)
ProgramOf(user_program) ==
    LET i == CHOOSE i \in 1..Len(programs) :
                 /\ programs[i].id = user_program.program_id
                 /\ \A j \in 1..(i - 1) : programs[j].id # user_program.program_id
    IN programs[i]

\* The rows as the server returns them for a SELECT without ORDER BY: the
\* row inserted as the i-th comes before the one inserted as the j-th when
\* row_order[i] < row_order[j].
Returned(rows) ==
    LET n == Len(rows)
        Before(i) == Cardinality({j \in 1..n : row_order[j] < row_order[i]})
    IN [r \in 1..n |-> rows[CHOOSE i \in 1..n : Before(i) = r - 1]]

\* program.entries, loaded when line 225 reads it: the stored entries of
\* the program, in the order the server returns them.
EntriesOf(program) ==
    LET Test(pe) == pe.program_id = program.id
    IN Returned(Filter(committed.program_entries \o pending.program_entries,
                       Test))

\* The week count with a division that truncates toward zero, int(days / 7).
WeeksTruncated(workout_date, user_program) ==
    LET days == TimedeltaDays(workout_date, StrptimeDate(user_program.start_date))
    IN IF days >= 0 THEN days \div 7 ELSE 0 - ((0 - days) \div 7)

\* (workout_date - program_start).days // 7
WeeksSinceStart(workout_date, user_program) ==
    TimedeltaDays(workout_date, StrptimeDate(user_program.start_date)) \div 7

\* A loop without the "continue" of line 229.
SkipNever(entries) == FALSE

\* if not day_exercises: continue
SkipDay(entries) == entries = <<>>

\* [pe for pe in program.entries if pe.day_of_week == day_of_week]
DayExercises(program, day_of_week) ==
    LET Test(pe) == pe.day_of_week = day_of_week
    IN Filter(EntriesOf(program), Test)

ProgramSession(user, user_program, workout_date) ==
    [user_id |-> user.id,
     user_program_id |-> Some(user_program.id),
     prog_week_index |-> Some(WeeksSinceStart(workout_date, user_program)),
     prog_day_of_week |-> Some(Weekday(workout_date)),
     started_at |-> StrftimeStamp(workout_date)]

FreeformSession(user, workout_date) ==
    [user_id |-> user.id,
     user_program_id |-> None,
     prog_week_index |-> None,
     prog_day_of_week |-> None,
     started_at |-> StrftimeStamp(workout_date)]

ExerciseIds(entries) == [i \in 1..Len(entries) |-> entries[i].exercise_id]

\* The session.add(session_obj) of line 253.
WithSession(p) == [p EXCEPT !.sessions = @ + 1]

\* The session.add(set_obj) calls of one session: when it has sets, the
\* session joins the owners of rows of the sets table; when two of its rows
\* share (exercise_id, set_index), the transaction holds a duplicate.
WithSets(p, has_sets, dup) ==
    [p EXCEPT !.sets = @ + (IF has_sets THEN 1 ELSE 0),
              !.dup_sets = @ \/ dup]

\* The test made on the count before the session is counted.
AtCheckpointBeforeCount(n) == (n - 1) % CommitEvery = 0

\* sessions_created % 100 == 0
AtCheckpoint(n) == n % CommitEvery = 0

(***************************************************************************)
(* The loops of generate_realistic_workout_data, one action per draft.     *)
(***************************************************************************)
begin_user ==
    /\ pc = "generate"
    /\ lp = "user"
    /\ u < Len(users)
    /\ \E freq \in FrequencyDraws : num_workouts' = NumWorkouts(freq)
    /\ draft' = 0
    /\ lp' = "draft"
    /\ UNCHANGED <<inputs, hashseed, pc, exit_code, error, rolled_back, commits, committed, pending>>
    /\ UNCHANGED <<mainLocals, u, sessions_created, draftLocals>>

\* "continue" of line 229: the draft is dropped.
SkipDraft ==
    /\ draft' = draft + 1
    /\ UNCHANGED <<inputs, hashseed, pc, exit_code, error, rolled_back, commits, committed, pending>>
    /\ UNCHANGED <<mainLocals, u, num_workouts, sessions_created, lp, draftLocals>>

\* The iteration ends with the session counted.
CountSession ==
    /\ sessions_created' = sessions_created + 1
    /\ draft' = draft + 1
    /\ UNCHANGED <<inputs, hashseed, pc, exit_code, error, rolled_back>>
    /\ UNCHANGED <<mainLocals, u, num_workouts, lp, draftLocals>>

\* A checkpoint commit made after the flush of the session, before its sets
\* are added.
MaterializeCommitFirst(has_sets, dup) ==
    LET p1 == WithSession(pending)
        p2 == WithSets(p1, has_sets, dup)
    IN \E flushed \in GatewayOutcomes :
        IF ~GatewayAccepts(flushed, p1)
        THEN Raise("SQLAlchemyError", p1) /\ UNCHANGED mainLocals
        ELSE IF AtCheckpoint(sessions_created + 1)
        THEN \E gw \in GatewayOutcomes :
               IF GatewayAccepts(gw, p1)
               THEN /\ committed' = Merge(committed, p1)
                    /\ pending' = WithSets(EmptyTables, has_sets, dup)
                    /\ commits' = commits + 1
                    /\ CountSession
               ELSE Raise("SQLAlchemyError", p1) /\ UNCHANGED mainLocals
        ELSE /\ pending' = p2
             /\ UNCHANGED <<committed, commits>>
             /\ CountSession

\* Lines 253-325 for a session that gets sets (has_sets), two of them with
\* the same exercise and set_index (dup).
Materialize(has_sets, dup) ==
    LET p1 == WithSession(pending)
        p2 == WithSets(p1, has_sets, dup)
    IN \E flushed \in GatewayOutcomes :
        IF ~GatewayAccepts(flushed, p1)
        THEN Raise("SQLAlchemyError", p1) /\ UNCHANGED mainLocals
        ELSE IF AtCheckpoint(sessions_created + 1)
        THEN \E gw \in GatewayOutcomes :
               IF GatewayAccepts(gw, p2)
               THEN Commit(p2) /\ CountSession
               ELSE Raise("SQLAlchemyError", p2) /\ UNCHANGED mainLocals
        ELSE /\ pending' = p2
             /\ UNCHANGED <<committed, commits>>
             /\ CountSession

\* random.randint(3, 8) of the freeform path
MinFreeExercises == 3
MaxFreeExercises == 8
\* random.randint(2, 8)
NumExercisesFromTwo ==
    Ends(MinFreeExercises - 1, MaxFreeExercises, rng.num_exercises)

NumExercisesDraws == Ends(MinFreeExercises, MaxFreeExercises, rng.num_exercises)

\* random.sample(exercises, min(num_exercises, len(exercises)))
SelectedExercises(num_exercises) ==
    Samples(exercises, Min(num_exercises, Len(exercises)))

Ids(rows) == [i \in 1..Len(rows) |-> rows[i].id]

\* Every num_sets is at least 2, so set_index 1 and 2 occur for each
\* exercise of the set loops: the session has sets when the loops run over
\* some exercise, and a duplicate when they run over one exercise twice.
SetsOutcome(ids) ==
    [skip |-> FALSE, has_sets |-> ids # <<>>, dup |-> ~NoDup(ids)]

\* What the draws of one iteration for this user can lead to.
ProgramOutcomes(user) ==
    {LET entries == DayExercises(ProgramOf(user_program),
                                 Weekday(WorkoutDate(k, t)))
     IN IF SkipDay(entries)
        THEN [skip |-> TRUE, has_sets |-> FALSE, dup |-> FALSE]
        ELSE SetsOutcome(ExerciseIds(entries)) :
        k \in DayDraws, t \in TimeDraws,
        user_program \in Range(UserActivePrograms(user))}

FreeformOutcomes ==
    UNION {{SetsOutcome(Ids(selected)) :
                selected \in SelectedExercises(num_exercises)} :
           num_exercises \in NumExercisesDraws}

DraftOutcomes(user) ==
    UNION {IF UseProgram(coin, UserActivePrograms(user))
           THEN ProgramOutcomes(user)
           ELSE FreeformOutcomes : coin \in BOOLEAN}

draft_session ==
    /\ pc = "generate"
    /\ lp = "draft"
    /\ draft < num_workouts
    /\ \E o \in DraftOutcomes(users[u + 1]) :
         IF o.skip THEN SkipDraft ELSE Materialize(o.has_sets, o.dup)

end_user ==
    /\ pc = "generate"
    /\ lp = "draft"
    /\ draft = num_workouts
    /\ u' = u + 1
    /\ lp' = "user"
    /\ UNCHANGED <<inputs, hashseed, pc, exit_code, error, rolled_back, commits, committed, pending>>
    /\ UNCHANGED <<mainLocals, num_workouts, draft, sessions_created, draftLocals>>

\* A synthesizer that returns after the loop without the commit of line 327.
ReturnWithoutFinalCommit ==
    /\ pc = "generate"
    /\ lp = "user"
    /\ u = Len(users)
    /\ Return("summary")
    /\ ResetLoop
    /\ ResetDraft
    /\ UNCHANGED <<commits, committed, pending>>
    /\ UNCHANGED mainLocals

\* Line 327: the commit after the loop over the users.
final_commit ==
    /\ pc = "generate"
    /\ lp = "user"
    /\ u = Len(users)
    /\ \E gw \in GatewayOutcomes :
        IF GatewayAccepts(gw, pending)
        THEN /\ Commit(pending)
             /\ Return("summary")
             /\ ResetLoop
             /\ ResetDraft
             /\ UNCHANGED mainLocals
        ELSE Raise("SQLAlchemyError", pending) /\ UNCHANGED mainLocals

ClearMain ==
    /\ users' = <<>>
    /\ exercises' = <<>>
    /\ programs' = <<>>
    /\ user_programs' = <<>>

\* Lines 441-452 and the finally block: the counts are queried and printed,
\* the process ends with status 0.
summary ==
    /\ pc = "summary"
    /\ \E gw \in GatewayOutcomes :
        IF gw = "ok"
        THEN /\ pc' = "exit"
             /\ exit_code' = "0"
             /\ error' = error
             /\ ClearMain
             /\ hashseed' = None
             /\ UNCHANGED <<inputs, rolled_back, commits, committed, pending>>
             /\ UNCHANGED <<loopLocals, draftLocals>>
        ELSE Raise("SQLAlchemyError", pending) /\ UNCHANGED mainLocals

\* An except block that commits what the transaction holds.
CommitOnError ==
    /\ pc = "except"
    /\ committed' = Merge(committed, pending)
    /\ pending' = EmptyTables
    /\ rolled_back' = FALSE
    /\ exit_code' = "1"
    /\ error' = "none"
    /\ pc' = "exit"
    /\ ClearMain
    /\ hashseed' = None
    /\ UNCHANGED <<inputs, commits, loopLocals, draftLocals>>

\* Lines 454-459.  The except block first prints a message that starts
\* with U+274C (line 455): a stdout that cannot encode it makes print raise
\* UnicodeEncodeError, so db_session.rollback() (456) and raise (457) are
\* not reached; otherwise rollback is called and the exception re-raised.
\* Either way the finally block closes the session (459), which discards
\* the open transaction, and the process ends with status 1.
rollback ==
    /\ pc = "except"
    /\ \E encoding \in rng.stdout : rolled_back' = (encoding = "utf-8")
    /\ pending' = EmptyTables
    /\ exit_code' = "1"
    /\ error' = "none"
    /\ pc' = "exit"
    /\ ClearMain
    /\ hashseed' = None
    /\ UNCHANGED <<inputs, commits, committed, loopLocals, draftLocals>>

\* The script is started again on the same storage and fixtures.
rerun ==
    /\ pc = "exit"
    /\ pc' = "create_users"
    /\ exit_code' = "running"
    /\ rolled_back' = FALSE
    /\ commits' = 0
    /\ at_start' = committed
    /\ midnights' \in rng.midnights
    /\ UNCHANGED <<files, now, rng, calls, row_order, error, hashseed, committed,
                   pending>>
    /\ UNCHANGED <<mainLocals, loopLocals, draftLocals>>

(***************************************************************************)
(* generate_realistic_weight, generate_realistic_reps and the rpe choice.  *)
(* Weights are in tenths of a kilogram, factors in tenths and hundredths.  *)
(***************************************************************************)
base_weights ==
    [slug \in {"squat", "deadlift", "barbell-bench-press", "overhead-press",
               "barbell-row", "front-squat", "romanian-deadlift",
               "incline-bench-press", "dumbbell-bench-press", "dumbbell-row",
               "lateral-raises", "bicep-curls", "tricep-dips", "pull-ups",
               "dips", "push-ups", "leg-press", "leg-curls", "leg-extensions",
               "calf-raises", "shoulder-press", "hammer-curls",
               "tricep-pushdowns", "skull-crushers", "plank",
               "mountain-climbers", "burpees", "box-jumps", "jumping-jacks",
               "high-knees", "jumping-squats"} |->
        CASE slug = "squat" -> 80
          [] slug = "deadlift" -> 100
          [] slug = "barbell-bench-press" -> 70
          [] slug = "overhead-press" -> 40
          [] slug = "barbell-row" -> 60
          [] slug = "front-squat" -> 60
          [] slug = "romanian-deadlift" -> 80
          [] slug = "incline-bench-press" -> 50
          [] slug = "dumbbell-bench-press" -> 25
          [] slug = "dumbbell-row" -> 20
          [] slug = "lateral-raises" -> 8
          [] slug = "bicep-curls" -> 12
          [] slug = "leg-press" -> 100
          [] slug = "leg-curls" -> 20
          [] slug = "leg-extensions" -> 15
          [] slug = "calf-raises" -> 30
          [] slug = "shoulder-press" -> 25
          [] slug = "hammer-curls" -> 10
          [] slug = "tricep-pushdowns" -> 15
          [] slug = "skull-crushers" -> 12
          [] OTHER -> 0]

DefaultBaseWeight == 20

\* base_weights.get(exercise_slug) or 20: a 0 of the table is replaced too.
BaseWeightOrDefault(slug) ==
    IF slug \in DOMAIN base_weights /\ base_weights[slug] # 0
    THEN base_weights[slug] ELSE DefaultBaseWeight

\* base_weights.get(exercise_slug, 0): no default weight.
BaseWeightNoDefault(slug) ==
    IF slug \in DOMAIN base_weights THEN base_weights[slug] ELSE 0

\* base_weights.get(exercise_slug, 20)
BaseWeight(slug) ==
    IF slug \in DOMAIN base_weights THEN base_weights[slug] ELSE DefaultBaseWeight

\* hash(str(user_id)): a fixed function of the text for one seed, of either
\* sign; which function it is differs from seed to seed, and the residues
\* modulo 3 of two texts are independent of each other over the seeds (the
\* two base-3 digits of the seed, for the ids 1 and 2).
StrHash(seed, id) ==
    LET digit == IF id % 2 = 1 THEN seed % 3 ELSE (seed \div 3) % 3
    IN digit + 3 * ((id * 7919 + seed * 104729) - 120000)

\* hash(str(user_id)) % 3: Python's % takes the sign of the divisor.
UserHash(seed, id) == StrHash(seed, id) % 3

\* weight_multiplier = 0.6 + user_hash * 0.2, in tenths
WeightMultiplier(user_hash) == 6 + user_hash * 2

\* round(x, 1) of x given in thousandths: the results that are nearest; a
\* value half way between two tenths has two, the float deciding.
RoundTenths(x) ==
    IF x % 100 < 50 THEN {x \div 100}
    ELSE IF x % 100 > 50 THEN {x \div 100 + 1}
    ELSE {x \div 100, x \div 100 + 1}

\* The values generate_realistic_weight can return for the jitter (in
\* hundredths) that random.uniform(0.8, 1.2) drew: the int 0, or a float.
\* seed is the hash seed as hashseed holds it, read when the base is not 0.
Weights(slug, seed, user_id, jitter) ==
    IF BaseWeight(slug) = 0
    THEN {[int |-> TRUE, tenths |-> 0]}
    ELSE {[int |-> FALSE, tenths |-> w] :
            w \in RoundTenths(BaseWeight(slug)
                              * WeightMultiplier(UserHash(seed[1], user_id))
                              * jitter)}

\* str(weight): "0" for the int, digits "." digit for the float.
StrWeight(w) ==
    IF w.int THEN [whole |-> w.tenths \div 10, frac |-> None]
    ELSE [whole |-> w.tenths \div 10, frac |-> Some(w.tenths % 10)]

\* text::numeric of the check constraints, in tenths
Numeric(text) ==
    text.whole * 10 + (IF text.frac = None THEN 0 ELSE text.frac[1])

JitterDraws == rng.jitter

CompoundSlugs ==
    {"squat", "deadlift", "barbell-bench-press", "overhead-press", "barbell-row"}
IsolationSlugs == {"bicep-curls", "tricep-dips", "lateral-raises", "calf-raises"}
EnduranceSlugs == {"plank", "mountain-climbers", "burpees"}

\* The bounds of random.randint for base_reps.
RepRange(slug) ==
    IF slug \in CompoundSlugs THEN <<3, 8>>
    ELSE IF slug \in IsolationSlugs THEN <<8, 15>>
    ELSE IF slug \in EnduranceSlugs THEN <<10, 30>>
    ELSE <<5, 12>>

MinFatigue == 1
MaxFatigue == 3

\* generate_realistic_reps with the fatigue applied from the middle set on.
RepsFatigueFromHalf(set_number, total_sets, base_reps, fatigue) ==
    IF set_number >= total_sets \div 2
    THEN Max(1, Max(1, base_reps - fatigue))
    ELSE Max(1, base_reps)

\* generate_realistic_reps without the two max(1, ...).
RepsUnclamped(set_number, total_sets, base_reps, fatigue) ==
    IF set_number > total_sets \div 2 THEN base_reps - fatigue ELSE base_reps

\* generate_realistic_reps for the draws base_reps and fatigue
Reps(set_number, total_sets, base_reps, fatigue) ==
    IF set_number > total_sets \div 2
    THEN Max(1, Max(1, base_reps - fatigue))
    ELSE Max(1, base_reps)

BaseRepsDraws(slug) == Ends(RepRange(slug)[1], RepRange(slug)[2], rng.base_reps)
FatigueDraws == Ends(MinFatigue, MaxFatigue, rng.fatigue)

\* random.choice([None, f"{randint(6, 10)}.0", f"{randint(6, 9)}.5"])
RpeText(whole, frac) == [whole |-> whole, frac |-> Some(frac)]

MinRpe == 6
MaxWholeRpe == 10
MaxHalfRpe == 9

RpeDraws ==
    (IF "none" \in rng.rpe_kinds THEN {None} ELSE {})
    \cup (IF "whole" \in rng.rpe_kinds
          THEN {Some(RpeText(x, 0)) : x \in Ends(MinRpe, MaxWholeRpe, rng.rpe_values)}
          ELSE {})
    \cup (IF "half" \in rng.rpe_kinds
          THEN {Some(RpeText(x, 5)) : x \in Ends(MinRpe, MaxHalfRpe, rng.rpe_values)}
          ELSE {})

MinProgramSets == 3
MaxProgramSets == 6
MinFreeSets == 2
MaxFreeSets == 5

(***************************************************************************)
(* The draft loop statement group by statement group.                      *)
(***************************************************************************)
\* Truth value of a list that may be unbound.
Truthy(list) == list # Unbound /\ list # <<>>

\* next(ex for ex in exercises if ex.id == program_entry.exercise_id)
ExerciseOf(program_entry) ==
    LET i == CHOOSE i \in 1..Len(exercises) :
                 /\ exercises[i].id = program_entry.exercise_id
                 /\ \A j \in 1..(i - 1) : exercises[j].id # program_entry.exercise_id
    IN exercises[i]

\* Lines 253-254: add the session and flush; up and entries are the values
\* the iteration has bound to use_program and day_exercises.
AddAndFlush(new_session, up, entries) ==
    LET p1 == WithSession(pending)
    IN \E flushed \in GatewayOutcomes :
        IF GatewayAccepts(flushed, p1)
        THEN /\ session_obj' = new_session
             /\ use_program' = up
             /\ day_exercises' = entries
             /\ pending' = p1
             /\ set_keys' = <<>>
             /\ lp' = "sets"
             /\ UNCHANGED <<inputs, hashseed, pc, exit_code, error, rolled_back,
                            commits, committed>>
             /\ UNCHANGED <<mainLocals, u, num_workouts, draft, sessions_created>>
             /\ UNCHANGED <<work, ex_idx, num_sets, set_num, set_obj>>
        ELSE Raise("SQLAlchemyError", p1) /\ UNCHANGED mainLocals

\* Lines 203-254.
open_session ==
    /\ pc = "generate"
    /\ lp = "draft"
    /\ draft < num_workouts
    /\ draft < MaxDrafts
    /\ LET user == users[u + 1]
           user_active_programs == UserActivePrograms(user)
       IN \E k \in DayDraws : \E t \in TimeDraws : \E coin \in BOOLEAN :
          LET workout_date == WorkoutDate(k, t)
              up == UseProgram(coin, user_active_programs)
          IN IF up /\ user_active_programs # <<>>
             THEN \E user_program \in Range(user_active_programs) :
                    LET entries == DayExercises(ProgramOf(user_program),
                                                Weekday(workout_date))
                    IN IF SkipDay(entries)
                       THEN /\ use_program' = up
                            /\ day_exercises' = entries
                            /\ draft' = draft + 1
                            /\ UNCHANGED <<inputs, hashseed, pc, exit_code, error,
                                           rolled_back, commits, committed,
                                           pending>>
                            /\ UNCHANGED <<mainLocals, u, num_workouts,
                                           sessions_created, lp>>
                            /\ UNCHANGED <<session_obj, work, ex_idx, num_sets,
                                           set_num, set_keys, set_obj>>
                       ELSE AddAndFlush(ProgramSession(user, user_program,
                                                       workout_date),
                                        up, entries)
             ELSE AddAndFlush(FreeformSession(user, workout_date),
                              up, day_exercises)

\* A branch test that reads day_exercises only.
ProgramBranchStale == Truthy(day_exercises)

\* Line 257: use_program and user_active_programs and day_exercises
ProgramBranch ==
    /\ use_program
    /\ UserActivePrograms(users[u + 1]) # <<>>
    /\ Truthy(day_exercises)

\* Line 257 and the list the chosen branch iterates over (lines 259-262,
\* or 289-294).
choose_exercises ==
    /\ pc = "generate"
    /\ lp = "sets"
    /\ IF ProgramBranch
       THEN work' = [i \in 1..Len(day_exercises) |-> ExerciseOf(day_exercises[i])]
       ELSE \E num_exercises \in NumExercisesDraws :
            \E selected \in SelectedExercises(num_exercises) :
               work' = selected
    /\ ex_idx' = 0
    /\ lp' = "exercise"
    /\ UNCHANGED <<inputs, hashseed, pc, exit_code, error, rolled_back, commits, committed, pending>>
    /\ UNCHANGED <<mainLocals, u, num_workouts, draft, sessions_created>>
    /\ UNCHANGED <<session_obj, day_exercises, use_program, num_sets, set_num,
                   set_keys, set_obj>>

\* random.randint(3, 6) in both branches.
NumSetsOneRange == Ends(MinProgramSets, MaxProgramSets, rng.num_sets)

\* random.randint(3, 6) and random.randint(2, 5)
NumSetsDraws ==
    IF ProgramBranch THEN Ends(MinProgramSets, MaxProgramSets, rng.num_sets)
    ELSE Ends(MinFreeSets, MaxFreeSets, rng.num_sets)

\* The next exercise of the branch and its num_sets (lines 259-263 or
\* 294-295), or the end of the loop.
next_exercise ==
    /\ pc = "generate"
    /\ lp = "exercise"
    /\ IF ex_idx < Len(work)
       THEN /\ ex_idx' = ex_idx + 1
            /\ \E n \in NumSetsDraws : num_sets' = n
            /\ set_num' = 0
            /\ lp' = "set"
       ELSE /\ lp' = "count"
            /\ UNCHANGED <<ex_idx, num_sets, set_num>>
    /\ UNCHANGED <<inputs, hashseed, pc, exit_code, error, rolled_back, commits, committed, pending>>
    /\ UNCHANGED <<mainLocals, u, num_workouts, draft, sessions_created>>
    /\ UNCHANGED <<session_obj, day_exercises, use_program, work, set_keys, set_obj>>

\* Set(...) of lines 276-284 and 308-316.
SetRow(exercise, index, reps, weight, rpe) ==
    [exercise_id |-> exercise.id,
     set_index |-> index,
     reps |-> reps,
     weight_kg |-> StrWeight(weight),
     rpe |-> rpe]

\* session.add(set_obj) of lines 285 and 317.
WithSet(p, keys, key) ==
    [p EXCEPT !.sets = @ + (IF keys = <<>> THEN 1 ELSE 0),
              !.dup_sets = @ \/ key \in Range(keys)]

\* A tier that is drawn anew by every call.
SeedsFresh(slug) ==
    IF BaseWeight(slug) = 0 THEN {hashseed} ELSE {Some(seed) : seed \in HashSeeds}

\* The seeds hash() can turn out to use: the one it used before, if any.
SeedsFor(slug) ==
    IF BaseWeight(slug) = 0 THEN {hashseed}
    ELSE IF hashseed = None THEN {Some(seed) : seed \in HashSeeds}
    ELSE {hashseed}

\* One iteration of "for set_num in range(1, num_sets + 1)" (lines 265-286
\* and 297-318).
add_set ==
    /\ pc = "generate"
    /\ lp = "set"
    /\ set_num < num_sets
    /\ LET exercise == work[ex_idx]
           user == users[u + 1]
           index == set_num + 1
       IN \E seed \in SeedsFor(exercise.slug) :
          \E jitter \in JitterDraws :
          \E weight \in Weights(exercise.slug, seed, user.id, jitter) :
          \E base_reps \in BaseRepsDraws(exercise.slug) :
          \E fatigue \in FatigueDraws :
          \E rpe \in RpeDraws :
            /\ hashseed' = seed
            /\ set_obj' = SetRow(exercise, index,
                                 Reps(index, num_sets, base_reps, fatigue),
                                 weight, rpe)
            /\ set_keys' = Append(set_keys, <<exercise.id, index>>)
            /\ pending' = WithSet(pending, set_keys, <<exercise.id, index>>)
            /\ set_num' = index
            /\ lp' = IF index = num_sets THEN "exercise" ELSE "set"
    /\ UNCHANGED <<inputs, pc, exit_code, error, rolled_back, commits, committed>>
    /\ UNCHANGED <<mainLocals, u, num_workouts, draft, sessions_created>>
    /\ UNCHANGED <<session_obj, day_exercises, use_program, work, ex_idx, num_sets>>

\* The names the next iteration binds before it reads them.
ForgetSession ==
    /\ session_obj' = NoValue
    /\ use_program' = FALSE
    /\ work' = <<>>
    /\ ex_idx' = 0
    /\ num_sets' = 0
    /\ set_num' = 0
    /\ set_keys' = <<>>
    /\ set_obj' = NoValue
    /\ UNCHANGED day_exercises

\* Lines 320-325.
count_session ==
    /\ pc = "generate"
    /\ lp = "count"
    /\ IF AtCheckpoint(sessions_created + 1)
       THEN \E gw \in GatewayOutcomes :
              IF GatewayAccepts(gw, pending)
              THEN /\ Commit(pending)
                   /\ sessions_created' = sessions_created + 1
                   /\ draft' = draft + 1
                   /\ lp' = "draft"
                   /\ ForgetSession
                   /\ UNCHANGED <<inputs, hashseed, pc, exit_code, error, rolled_back>>
                   /\ UNCHANGED <<mainLocals, u, num_workouts>>
              ELSE Raise("SQLAlchemyError", pending) /\ UNCHANGED mainLocals
       ELSE /\ sessions_created' = sessions_created + 1
            /\ draft' = draft + 1
            /\ lp' = "draft"
            /\ ForgetSession
            /\ UNCHANGED <<inputs, hashseed, pc, exit_code, error, rolled_back,
                           commits, committed, pending>>
            /\ UNCHANGED <<mainLocals, u, num_workouts>>

(***************************************************************************)
(* Specification of whole runs.                                            *)
(***************************************************************************)
MainFiles ==
    {Files(Missing, CatalogTwo, <<ProgCurls>>),
     Files(UsersOne, Missing, <<ProgSquat>>),
     Files(UsersOne, CatalogThree, Missing),
     Files(UsersOne, CatalogThree, <<ProgUnknownSlug>>),
     Files(UsersOne, CatalogThree, <<ProgSquat>>),
     Files(UsersTwo, CatalogTwo, <<ProgCurls>>)}

\* The orders the server can use for the rows of one program, of which the
\* fixture has at most most_entries: the order of insertion, or any.
RowOrders ==
    LET sizes == IF files.programs = Missing THEN {0}
                 ELSE {0} \cup {Len(files.programs[i].entries) :
                                   i \in 1..Len(files.programs)}
        most_entries == CHOOSE n \in sizes : \A k \in sizes : k <= n
    IN IF "any" \in rng.row_order
       THEN SamplesOfIdx(1..most_entries, most_entries)
       ELSE {[i \in 1..most_entries |-> i]}

InitState(fs, profiles, clock, observed) ==
    /\ files \in fs
    /\ now \in clock
    /\ rng \in profiles
    /\ at_start = EmptyTables
    /\ calls \in observed
    /\ row_order \in RowOrders
    /\ midnights \in rng.midnights
    /\ error = "none"
    /\ hashseed = None
    /\ pc = "create_users"
    /\ exit_code = "running"
    /\ rolled_back = FALSE
    /\ commits = 0
    /\ committed = EmptyTables
    /\ pending = EmptyTables
    /\ users = <<>>
    /\ exercises = <<>>
    /\ programs = <<>>
    /\ user_programs = <<>>
    /\ u = 0
    /\ num_workouts = 0
    /\ draft = 0
    /\ sessions_created = 0
    /\ lp = "none"
    /\ session_obj = NoValue
    /\ day_exercises = Unbound
    /\ use_program = FALSE
    /\ work = <<>>
    /\ ex_idx = 0
    /\ num_sets = 0
    /\ set_num = 0
    /\ set_keys = <<>>
    /\ set_obj = NoValue

InitAt(fs, profiles, clock) == InitState(fs, profiles, clock, {<<>>})

InitWith(fs, profiles) == InitAt(fs, profiles, NowChoices)

Init == InitWith(MainFiles, {RngWide})

Next ==
    \/ create_users
    \/ create_exercises
    \/ create_programs
    \/ assign_user
    \/ commit_user_programs
    \/ begin_user
    \/ draft_session
    \/ end_user
    \/ final_commit
    \/ summary
    \/ rollback
    \/ rerun

Spec == Init /\ [][Next]_vars

(***************************************************************************)
(* Specification of the first iterations of the draft loop in detail.      *)
(***************************************************************************)
DraftFiles == {Files(UsersTwo, CatalogThree, <<ProgTwice>>)}

InitDraft ==
    InitWith(DraftFiles,
             {RngDates, RngSets, RngWeights, RngReps, RngMidnight, RngOrders})

NextDraft ==
    \/ create_users
    \/ create_exercises
    \/ create_programs
    \/ assign_user
    \/ commit_user_programs
    \/ begin_user
    \/ open_session
    \/ choose_exercises
    \/ next_exercise
    \/ add_set
    \/ count_session
    \/ rollback

SpecDraft == InitDraft /\ [][NextDraft]_vars

(***************************************************************************)
(* Specification of the stages up to the end of create_user_programs, on   *)
(* catalogs of zero, two and four programs.                                *)
(***************************************************************************)
AssignFiles ==
    {Files(UsersOne, CatalogThree, <<>>),
     Files(UsersTwo, CatalogThree, <<ProgSquat, ProgNoEntries>>),
     Files(UsersOne, CatalogThree,
           <<ProgSquat, ProgTwice, ProgNoEntries, ProgPlank>>)}

InitAssign == InitWith(AssignFiles, {RngDates, RngMidnight})

NextAssign ==
    \/ create_users
    \/ create_exercises
    \/ create_programs
    \/ assign_user
    \/ commit_user_programs
    \/ rollback

SpecAssign == InitAssign /\ [][NextAssign]_vars

(***************************************************************************)
(* Specification of the draft loop for one user, one program whose only    *)
(* entry is squat on day 0 at position 1, and one assignment that started  *)
(* 70 days before a run made on a Monday.                                  *)
(***************************************************************************)
\* 2026-11-02 15:29:07.000123, a Monday.
MondayNow ==
    {[day |-> 739922, hour |-> 15, minute |-> 29, second |-> 7, microsecond |-> 123]}

\* The days drawn are the first Monday of the horizon and the day of the run.
RngScenario ==
    [RngNarrow EXCEPT !.start_days_ago = {70}, !.days = {1, 365},
                      !.num_sets = RngWide.num_sets]

InitScenario ==
    InitAt({Files(UsersOne, CatalogThree, <<ProgSquat>>)}, {RngScenario}, MondayNow)

SpecScenario == InitScenario /\ [][NextDraft]_vars

(***************************************************************************)
(* Specification of the draft loop for one user on a catalog of two        *)
(* exercises with a program and on a catalog of eight without programs.    *)
(***************************************************************************)
FreeFiles ==
    {Files(UsersOne, CatalogTwo, <<ProgCurls>>),
     Files(UsersOne, CatalogEight, <<>>)}

InitFree == InitWith(FreeFiles, {RngNarrow})

SpecFree == InitFree /\ [][NextDraft]_vars

(***************************************************************************)
(* Specification of the draft loop for one user and one program: one whose *)
(* entries of day 0 are not listed by position, or one that lists an       *)
(* exercise twice on day 0.                                                *)
(***************************************************************************)
OrderFiles ==
    {Files(UsersOne, CatalogThree, <<ProgShuffled>>),
     Files(UsersOne, CatalogThree, <<ProgTwice>>)}

InitOrder == InitWith(OrderFiles, {RngDates, RngSets, RngOrders})

SpecOrder == InitOrder /\ [][NextDraft]_vars

(***************************************************************************)
(* Specification of the draft loop for one user and one program whose only *)
(* entry is on day 1, with drafts on a Monday and on a Tuesday.            *)
(***************************************************************************)
\* Monday 2026-10-26 and Tuesday 2026-10-27, and every number of sets.
RngWeekdays ==
    [RngNarrow EXCEPT !.days = {361, 362}, !.num_sets = RngWide.num_sets]

InitWeekday ==
    InitWith({Files(UsersOne, CatalogThree, <<ProgDayOne>>)}, {RngWeekdays})

SpecWeekday == InitWeekday /\ [][NextDraft]_vars

(***************************************************************************)
(* Specification of generate_realistic_weight called again and again in    *)
(* one process: calls holds the first call and the latest one.             *)
(***************************************************************************)
\* Every key of base_weights whose weight is 0, three whose weight is not,
\* and two slugs that are no key of it.
SlugChoices ==
    {slug \in DOMAIN base_weights : base_weights[slug] = 0}
    \cup {"squat", "bicep-curls", "dumbbell-bench-press"}
    \cup {"kettlebell-swing", "lunges"}

UserIdChoices == {1, 2}

\* Both ends of the jitter, every hash seed.
RngCalls ==
    [RngNarrow EXCEPT !.jitter = RngWide.jitter,
                      !.hash_seeds = RngWide.hash_seeds]

\* The arguments, the draw, the locals and the result of one call; the
\* locals are None when the function returns at line 375.
WeightCall(slug, user_id, jitter, seed, weight) ==
    [exercise_slug |-> slug,
     user_id |-> user_id,
     random_variation |-> jitter,
     user_hash |-> IF BaseWeight(slug) = 0 THEN None
                   ELSE Some(UserHash(seed[1], user_id)),
     weight_multiplier |-> IF BaseWeight(slug) = 0 THEN None
                           ELSE Some(WeightMultiplier(UserHash(seed[1], user_id))),
     result |-> weight,
     weight_kg |-> StrWeight(weight)]

call_weight ==
    /\ \E slug \in SlugChoices : \E user_id \in UserIdChoices :
       \E jitter \in JitterDraws : \E seed \in SeedsFor(slug) :
       \E weight \in Weights(slug, seed, user_id, jitter) :
          /\ hashseed' = seed
          /\ calls' = IF calls = <<>>
                       THEN <<WeightCall(slug, user_id, jitter, seed, weight)>>
                       ELSE <<calls[1],
                              WeightCall(slug, user_id, jitter, seed, weight)>>
    /\ UNCHANGED <<files, now, rng, at_start, row_order, midnights, pc, exit_code,
                   error, rolled_back, commits, committed, pending>>
    /\ UNCHANGED <<mainLocals, loopLocals, draftLocals>>

InitWeight == InitWith(DraftFiles, {RngCalls})

SpecWeight == InitWeight /\ [][call_weight]_vars

(***************************************************************************)
(* Specification of one call of generate_realistic_reps: the arguments and *)
(* the two draws are chosen at the start, the action computes the result.  *)
(***************************************************************************)
\* Every slug the function names, one bodyweight slug it does not name and
\* one slug unknown to both generators.
RepSlugChoices ==
    CompoundSlugs \cup IsolationSlugs \cup EnduranceSlugs \cup {"push-ups", "lunges"}

\* num_sets is drawn from 3..6 or from 2..5.
TotalSetsChoices == MinFreeSets..MaxProgramSets

RepsInputs ==
    UNION {{<<[exercise_slug |-> slug, set_num |-> set_number,
               total_sets |-> total_sets, base_reps |-> base_reps,
               fatigue |-> fatigue, result |-> None]>> :
                set_number \in 1..total_sets,
                base_reps \in RepRange(slug)[1]..RepRange(slug)[2],
                fatigue \in MinFatigue..MaxFatigue} :
           slug \in RepSlugChoices, total_sets \in TotalSetsChoices}

call_reps ==
    /\ calls # <<>>
    /\ calls[1].result = None
    /\ calls' = <<[calls[1] EXCEPT
                     !.result = Some(Reps(calls[1].set_num, calls[1].total_sets,
                                          calls[1].base_reps, calls[1].fatigue))]>>
    /\ UNCHANGED <<files, now, rng, at_start, row_order, midnights, hashseed, pc,
                   exit_code, error, rolled_back, commits, committed, pending>>
    /\ UNCHANGED <<mainLocals, loopLocals, draftLocals>>

InitReps == InitState(DraftFiles, {RngNarrow}, NowChoices, RepsInputs)

SpecReps == InitReps /\ [][call_reps]_vars

(***************************************************************************)
(* Properties.                                                             *)
(***************************************************************************)
\* The set_index values the session being generated has for exercise e.
IndexesOf(e) == {i \in 1..Len(set_keys) : set_keys[i][1] = e}

\* C1: for every (session, exercise) pair with at least one set, the
\* set_index values are exactly 1..k, with no gap and no duplicate, whatever
\* the program schedule (under SpecDraft, whose program lists squat at two
\* positions of day 0).
C1_SetIndexesContiguous ==
    \A e \in {key[1] : key \in Range(set_keys)} :
        /\ \A i, j \in IndexesOf(e) : i # j => set_keys[i][2] # set_keys[j][2]
        /\ {set_keys[i][2] : i \in IndexesOf(e)} = 1..Cardinality(IndexesOf(e))

\* C2: every set the synthesizer creates has reps > 0, weight_kg >= 0 and an
\* rpe that is absent or within 1..10 (Numeric is in tenths).
C2_SetValuesInRange ==
    set_obj # NoValue =>
        /\ set_obj.reps > 0
        /\ Numeric(set_obj.weight_kg) >= 0
        /\ \/ set_obj.rpe = None
           \/ /\ set_obj.rpe # None
              /\ Numeric(set_obj.rpe[1]) >= 10
              /\ Numeric(set_obj.rpe[1]) <= 100

\* A set of the program-based path, in the second half of its exercise, with
\* a weight and an rpe.
C2_Witness ==
    /\ set_obj # NoValue
    /\ ProgramBranch
    /\ set_obj.set_index > num_sets \div 2
    /\ Numeric(set_obj.weight_kg) > 0
    /\ set_obj.rpe # None

\* The assignment the session s references.
AssignmentOf(s) ==
    CHOOSE up \in Range(user_programs) : up.id = s.user_program_id[1]

IsProgramBased(s) == s # NoValue /\ s.user_program_id # None

\* Whole days from the assignment's start_date to the session's started_at.
DaysSinceStart(s) == s.started_at.day - AssignmentOf(s).start_date.day

\* C3: a session with an assignment reference has prog_day_of_week equal to
\* the weekday of started_at (Monday is 0; day 1 of the calendar is a
\* Monday) and prog_week_index equal to the true floor of the whole days
\* since the assignment's start_date divided by 7, also for a negative count.
C3_WeekAndDayOfStartedAt ==
    IsProgramBased(session_obj) =>
        /\ session_obj.prog_day_of_week
             = Some((session_obj.started_at.day - 1) % 7)
        /\ \E q \in (0 - HorizonDays)..HorizonDays :
             /\ 7 * q <= DaysSinceStart(session_obj)
             /\ DaysSinceStart(session_obj) < 7 * q + 7
             /\ session_obj.prog_week_index = Some(q)

\* A program-based session that starts before its assignment's start_date,
\* by a number of days that is no multiple of 7.
C3_Witness ==
    /\ IsProgramBased(session_obj)
    /\ DaysSinceStart(session_obj) < 0
    /\ DaysSinceStart(session_obj) % 7 # 0

\* C4: a draft that takes the program-based path on a weekday for which the
\* chosen program has no entry creates no session and no set and is not
\* counted, and the loop goes on with the next draft; no program-based
\* session exists whose day has no scheduled entry.
C4_DaySkip ==
    [][/\ (pc = "generate" /\ lp = "draft" /\ use_program' /\ day_exercises' = <<>>)
            => /\ draft' = draft + 1
               /\ pc' = "generate" /\ lp' = "draft"
               /\ session_obj' = NoValue /\ set_keys' = <<>>
               /\ sessions_created' = sessions_created
               /\ pending' = pending /\ committed' = committed
       /\ IsProgramBased(session_obj')
            => DayExercises(ProgramOf(AssignmentOf(session_obj')),
                            session_obj'.prog_day_of_week[1]) # <<>>
      ]_vars

\* A draft has been skipped: the program path was taken and the day is empty.
C4_Witness ==
    /\ pc = "generate" /\ lp = "draft"
    /\ use_program /\ day_exercises = <<>>
    /\ sessions_created < draft

\* C5: when the gateway raises during the synthesizer the run leaves the
\* loop at once, and what is stored afterwards is what the last successful
\* commit stored: the except block adds nothing and drops the transaction.
C5_FailureKeepsLastCommit ==
    [][/\ (pc = "generate" /\ pc' = "except")
            => /\ error' = "SQLAlchemyError"
               /\ committed' = committed /\ commits' = commits
       /\ (pc = "except" /\ error = "SQLAlchemyError")
            => /\ pc' = "exit" /\ exit_code' = "1"
               /\ committed' = committed
               /\ pending' = EmptyTables
      ]_vars

\* The gateway raised after a checkpoint, with sessions not yet committed.
C5_Witness ==
    /\ pc = "except" /\ error = "SQLAlchemyError"
    /\ committed.sessions >= CommitEvery
    /\ pending.sessions > 0 /\ pending.sets > 0

\* An iteration of the draft loop that goes on to the next iteration.
LoopStep ==
    /\ pc = "generate" /\ lp = "draft"
    /\ pc' = "generate" /\ lp' = "draft"

\* C6: an iteration of the draft loop commits exactly when it counts a
\* session and the count, which runs across the users, is then a multiple of
\* 100; the commit stores that session and its sets; a skipped draft neither
\* counts nor commits.
C6_CheckpointEveryHundred ==
    [][LoopStep =>
        /\ sessions_created' \in {sessions_created, sessions_created + 1}
        /\ (commits' # commits)
             <=> (sessions_created' = sessions_created + 1
                  /\ sessions_created' % 100 = 0)
        /\ commits' # commits
             => /\ commits' = commits + 1
                /\ pending' = EmptyTables
                /\ committed'.sessions = committed.sessions + pending.sessions + 1
                /\ committed'.sets = committed.sets + pending.sets
                                       + (IF exercises = <<>> THEN 0 ELSE 1)
        /\ sessions_created' = sessions_created
             => committed' = committed /\ pending' = pending
      ]_vars

\* The second checkpoint, reached in the second user's loop.
C6_Witness ==
    /\ pc = "generate" /\ lp = "draft" /\ u = 1
    /\ sessions_created = 200
    /\ pending = EmptyTables
    /\ committed.sessions = 200

\* C7: a run that ends with a fixture error (a missing file, an unknown
\* exercise slug) has persisted nothing.
C7_FixtureErrorPersistsNothing ==
    (pc = "except" /\ error \in {"FileNotFoundError", "KeyError"})
        => commits = 0 /\ committed = at_start

\* C8 as stated: a run started on storage that holds committed users ends
\* with a second copy of them stored.
C8_RerunDuplicates ==
    (pc = "exit" /\ at_start.users # <<>>)
        => Emails(committed.users) = Emails(at_start.users) \o Emails(at_start.users)

\* C8 amended: a run started on storage that already holds the fixture's
\* users stores nothing; it ends with status 1 and no open transaction.
C8_RerunAddsNothing ==
    at_start.users # <<>> =>
        /\ committed = at_start
        /\ commits = 0
        /\ pc = "exit" => exit_code = "1" /\ pending = EmptyTables

\* A run on storage that an earlier run left with a checkpoint's sessions
\* has ended.
C8_Witness ==
    /\ pc = "exit" /\ exit_code = "1"
    /\ at_start.users # <<>>
    /\ at_start.sessions >= CommitEvery

\* The assignments of the user, in the order they were created.
AssignmentsOf(user) ==
    LET Test(up) == up.user_id = user.id IN Filter(user_programs, Test)

\* C9: with a non-empty catalog, create_user_programs gives every user
\* min(r, catalog size) assignments for some r in 1..3, hence 1 to 3, of
\* pairwise distinct programs, and stores exactly these.
C9_AssignmentsPerUser ==
    (pc = "generate" /\ programs # <<>>) =>
        /\ committed.user_programs = user_programs
        /\ \A i \in 1..Len(users) :
             LET mine == AssignmentsOf(users[i])
             IN /\ \E r \in 1..3 : Len(mine) = Min(r, Len(programs))
                /\ Len(mine) \in 1..3
                /\ NoDup([k \in 1..Len(mine) |-> mine[k].program_id])

\* A user has three assignments out of a catalog of four programs.
C9_Witness ==
    /\ pc = "generate"
    /\ Len(programs) = 4
    /\ \E i \in 1..Len(users) : Len(AssignmentsOf(users[i])) = 3

\* C10: the assignment a session references is active and belongs to the
\* session's user; a user without an active assignment gets sessions with no
\* assignment reference.
C10_ActiveAssignmentOfSameUser ==
    session_obj # NoValue =>
        /\ IsProgramBased(session_obj)
             => /\ \E up \in Range(user_programs) :
                      up.id = session_obj.user_program_id[1]
                /\ AssignmentOf(session_obj).active
                /\ AssignmentOf(session_obj).user_id = session_obj.user_id
        /\ (\A up \in Range(user_programs) :
                up.user_id = session_obj.user_id => ~up.active)
             => session_obj.user_program_id = None

\* A program-based session while another user has an active assignment too.
C10_Witness ==
    /\ IsProgramBased(session_obj)
    /\ \E up \in Range(user_programs) :
          up.active /\ up.user_id # session_obj.user_id

\* C11: with one user, the program whose only entry is squat on Monday at
\* position 1 and one active assignment that started 70 days before the
\* run, the program-based session the synthesizer makes is the one of the
\* Monday of the last 7 days, with week index 10 (under SpecScenario).
C11_OneSessionInWeekTen ==
    (IsProgramBased(session_obj) /\ AssignmentOf(session_obj).active) =>
        /\ session_obj.started_at.day >= now.day - 7
        /\ session_obj.started_at.day <= now.day
        /\ session_obj.prog_day_of_week = Some(0)
        /\ session_obj.prog_week_index = Some(10)

\* C12: in one process, two calls of generate_realistic_weight with the
\* same user_id, exercise_slug and jitter use the same multiplier and return
\* the same weight; the tier is in 0..2 and the multiplier 0.6 + 0.2 * tier
\* (in tenths).
C12_TierStableInRun ==
    /\ \A i \in 1..Len(calls) :
         calls[i].user_hash # None =>
            /\ calls[i].user_hash[1] \in 0..2
            /\ calls[i].weight_multiplier = Some(6 + 2 * calls[i].user_hash[1])
    /\ \A i, j \in 1..Len(calls) :
         (/\ calls[i].user_id = calls[j].user_id
          /\ calls[i].exercise_slug = calls[j].exercise_slug
          /\ calls[i].random_variation = calls[j].random_variation)
            => /\ calls[i].weight_multiplier = calls[j].weight_multiplier
               /\ calls[i].result = calls[j].result

\* The first call and a later one have the same arguments and jitter, and
\* the exercise has a weight.
C12_Witness ==
    /\ Len(calls) = 2
    /\ calls[1].user_id = calls[2].user_id
    /\ calls[1].exercise_slug = calls[2].exercise_slug
    /\ calls[1].random_variation = calls[2].random_variation
    /\ calls[1].weight_multiplier # None

\* C13: for a slug whose base weight in the table is 0 the weight model
\* returns 0, whatever the user and the jitter, and the weight_kg text made
\* of it is 0.
C13_BodyweightIsZero ==
    \A i \in 1..Len(calls) :
        (/\ calls[i].exercise_slug \in DOMAIN base_weights
         /\ base_weights[calls[i].exercise_slug] = 0)
            => /\ calls[i].result.tenths = 0
               /\ Numeric(calls[i].weight_kg) = 0

\* Calls for push-ups and for plank, by different users with different
\* jitters.
C13_Witness ==
    /\ Len(calls) = 2
    /\ calls[1].exercise_slug = "push-ups"
    /\ calls[2].exercise_slug = "plank"
    /\ calls[1].user_id # calls[2].user_id
    /\ calls[1].random_variation # calls[2].random_variation

\* C14: for a slug that is no key of the table the result is
\* round(20 * (0.6 + 0.2 * tier) * jitter, 1), within 9.6..24.0 and never 0
\* (the result in tenths, the product in thousandths).
C14_UnknownSlugUsesTwenty ==
    \A i \in 1..Len(calls) :
        calls[i].exercise_slug \notin DOMAIN base_weights =>
            /\ calls[i].user_hash # None
            /\ LET exact == 20 * (6 + 2 * calls[i].user_hash[1])
                               * calls[i].random_variation
                   got == calls[i].result.tenths * 100
               IN /\ got - exact <= 50
                  /\ exact - got <= 50
            /\ calls[i].result.tenths >= 96
            /\ calls[i].result.tenths <= 240
            /\ Numeric(calls[i].weight_kg) # 0

\* Calls for a slug outside the table at both ends of the range: tier 0
\* with jitter 0.8 and tier 2 with jitter 1.2.
C14_Witness ==
    /\ Len(calls) = 2
    /\ calls[1].exercise_slug = "lunges"
    /\ calls[2].exercise_slug = "lunges"
    /\ calls[1].result.tenths = 96
    /\ calls[2].result.tenths = 240

\* The range of the category of the slug: compound, isolation, endurance,
\* unclassified.
CategoryRange(slug) ==
    IF slug \in {"squat", "deadlift", "barbell-bench-press", "overhead-press",
                 "barbell-row"} THEN <<3, 8>>
    ELSE IF slug \in {"bicep-curls", "tricep-dips", "lateral-raises",
                      "calf-raises"} THEN <<8, 15>>
    ELSE IF slug \in {"plank", "mountain-climbers", "burpees"} THEN <<10, 30>>
    ELSE <<5, 12>>

\* C15: generate_realistic_reps returns a value of the category range
\* lo..hi when set_num <= total_sets // 2, a value of max(1, lo - 3)..hi - 1
\* when set_num > total_sets // 2, and never less than 1.
C15_RepsWithinRange ==
    \A i \in 1..Len(calls) :
        calls[i].result # None =>
            LET lo == CategoryRange(calls[i].exercise_slug)[1]
                hi == CategoryRange(calls[i].exercise_slug)[2]
                reps == calls[i].result[1]
            IN /\ reps >= 1
               /\ calls[i].set_num <= calls[i].total_sets \div 2
                    => reps >= lo /\ reps <= hi
               /\ calls[i].set_num > calls[i].total_sets \div 2
                    => reps >= Max(1, lo - 3) /\ reps <= hi - 1

\* A call for a set of the second half whose base less the fatigue is
\* below 1: the result is 1.
C15_Witness ==
    /\ Len(calls) = 1
    /\ calls[1].result = Some(1)
    /\ calls[1].set_num > calls[1].total_sets \div 2
    /\ calls[1].base_reps - calls[1].fatigue < 1


\* C16 as stated: an exception is followed by rollback and status 1, and
\* once the five stages have completed the run ends with status 0 without
\* a rollback.
C16_CompletedRunExitsZero ==
    [][/\ pc = "except"
            => pc' = "exit" /\ rolled_back' /\ exit_code' = "1"
       /\ pc = "summary"
            => pc' = "exit" /\ exit_code' = "0" /\ ~rolled_back'
      ]_vars


\* The session whose sets have all been generated is a freeform one.
FreeformDone ==
    /\ pc = "generate" /\ lp = "count"
    /\ session_obj # NoValue /\ session_obj.user_program_id = None

\* The exercises the session being generated has sets for.
ExercisesWithSets == {key[1] : key \in Range(set_keys)}

\* C17 as stated: a freeform session has sets for 3 to 8 exercises, each
\* sampled once.
C17_ThreeToEightDistinct ==
    FreeformDone =>
        /\ Cardinality(ExercisesWithSets) \in MinFreeExercises..MaxFreeExercises
        /\ NoDup(Ids(work))
        /\ ExercisesWithSets = Range(Ids(work))

\* C17, amended: a freeform session has sets for at least min(3, n) and at
\* most min(8, n) exercises of a catalog of n exercises, each sampled once.
C17_ClampedToCatalog ==
    FreeformDone =>
        /\ Cardinality(ExercisesWithSets)
             \in Min(MinFreeExercises, Len(exercises))
                 ..Min(MaxFreeExercises, Len(exercises))
        /\ NoDup(Ids(work))
        /\ ExercisesWithSets = Range(Ids(work))
        /\ ExercisesWithSets \subseteq Range(Ids(exercises))

\* A freeform session with sets for eight exercises of a catalog of eight.
C17_Witness ==
    /\ FreeformDone
    /\ Len(exercises) = MaxFreeExercises
    /\ Cardinality(ExercisesWithSets) = MaxFreeExercises


\* The stages in the order of lines 433-439.
StageOrder ==
    <<"create_users", "create_exercises", "create_programs",
      "create_user_programs", "generate">>

\* The rows of the list user_programs are stored and not in the transaction.
AssignmentsCommitted ==
    /\ pending.user_programs = <<>>
    /\ Range(user_programs) \subseteq Range(committed.user_programs)

\* C18: a run starts with the users stage and goes from a stage only to the
\* stage after it, with one more commit done and nothing left in the
\* transaction; sessions are inserted in the fifth stage only, when every
\* assignment is committed, and from then on the assignments, stored or
\* held by the run, do not change.
C18_StageOrder ==
    [][/\ pc' # pc /\ pc' \in Range(StageOrder)
            => \/ pc = "exit" /\ pc' = StageOrder[1]
               \/ \E i \in 1..(Len(StageOrder) - 1) :
                     /\ pc = StageOrder[i] /\ pc' = StageOrder[i + 1]
                     /\ commits' = commits + 1
                     /\ pending' = EmptyTables
       /\ pc' \in Range(StageOrder) \ {"generate"}
            => /\ pending'.sessions = 0 /\ pending'.sets = 0
               /\ committed'.sessions = at_start'.sessions
       /\ pc' = "generate" => AssignmentsCommitted'
       /\ pc = "generate"
            => /\ committed'.user_programs = committed.user_programs
               /\ pc' = "generate" => user_programs' = user_programs
      ]_vars

\* The first session of a run is in the transaction, the assignments of the
\* run are stored.
C18_Witness ==
    /\ pc = "generate"
    /\ pending.sessions = 1 /\ committed.sessions = at_start.sessions
    /\ user_programs # <<>>
    /\ Range(user_programs) \subseteq Range(committed.user_programs)


\* C19: the num_sets drawn for a program entry of a program-based session
\* is in 3..6 and the one drawn for an exercise of a freeform session is in
\* 2..5; the sets of the entry or exercise are generated one after another
\* with set_index 1, 2, ..., num_sets, and the loop ends after num_sets.
C19_SetCountsAndIndexes ==
    [][/\ (lp = "exercise" /\ lp' = "set")
            => /\ set_num' = 0
               /\ IF IsProgramBased(session_obj)
                  THEN num_sets' \in 3..6 ELSE num_sets' \in 2..5
       /\ lp = "set"
            => /\ num_sets' = num_sets
               /\ set_num' = set_num + 1
               /\ set_obj'.set_index = set_num'
               /\ set_obj'.exercise_id = work[ex_idx].id
               /\ set_keys' = Append(set_keys, <<work[ex_idx].id, set_num'>>)
               /\ IF set_num' = num_sets THEN lp' = "exercise" ELSE lp' = "set"
      ]_vars

\* The fifth and last set of an exercise of a freeform session.
C19_Witness ==
    /\ pc = "generate" /\ lp = "exercise"
    /\ session_obj # NoValue /\ ~IsProgramBased(session_obj)
    /\ set_obj # NoValue
    /\ num_sets = 5 /\ set_obj.set_index = 5


\* The session whose sets have all been generated is a program-based one.
ProgramDone ==
    /\ pc = "generate" /\ lp = "count"
    /\ IsProgramBased(session_obj)

\* The places, in the stored rows of program_entries, of the entries that
\* the program of the session's assignment has on the session's day.
ScheduledPlaces ==
    {i \in 1..Len(committed.program_entries) :
        /\ committed.program_entries[i].program_id
             = AssignmentOf(session_obj).program_id
        /\ committed.program_entries[i].day_of_week
             = session_obj.prog_day_of_week[1]}

\* The exercises of the sets with set_index 1, in generation order.
FirstSetExercises ==
    LET First(key) == key[2] = 1
        starts == SelectSeq(set_keys, First)
    IN [j \in 1..Len(starts) |-> starts[j][1]]

\* C20: a program-based session whose sets have been generated has one run
\* of sets per entry that its program has on the session's day_of_week, for
\* the exercise of that entry, in the order in which the entries were
\* stored (the order of insertion), and sets for no other exercise.
C20_EntriesInStoredOrder ==
    ProgramDone =>
        /\ Len(FirstSetExercises) = Cardinality(ScheduledPlaces)
        /\ \A j \in 1..Len(FirstSetExercises) :
              \E i \in ScheduledPlaces :
                 /\ Cardinality({h \in ScheduledPlaces : h < i}) = j - 1
                 /\ FirstSetExercises[j]
                      = committed.program_entries[i].exercise_id
        /\ ExercisesWithSets
             = {committed.program_entries[i].exercise_id : i \in ScheduledPlaces}


\* C21: the loop of a user makes n = floor(365 * f / 7) drafts (130 for
\* f = 2.5 and 234 for f = 4.5), every draft either counts one session or
\* is discarded, a draft of a user without an active assignment is never
\* discarded, and the loop ends after the n-th draft; so the sessions of the
\* first user are the drafts made minus the discarded ones, at most n.
C21_SessionsPerUser ==
    [][/\ (pc = "generate" /\ lp = "user" /\ lp' = "draft")
            => /\ draft' = 0
               /\ num_workouts' \in {130, 234}
               /\ \E f \in {250, 450} :
                     /\ 7 * 100 * num_workouts' <= 365 * f
                     /\ 365 * f < 7 * 100 * (num_workouts' + 1)
       /\ LoopStep
            => /\ draft < num_workouts
               /\ draft' = draft + 1
               /\ num_workouts' = num_workouts /\ u' = u
               /\ sessions_created' \in {sessions_created, sessions_created + 1}
               /\ UserActivePrograms(users[u + 1]) = <<>>
                    => sessions_created' = sessions_created + 1
       /\ (pc = "generate" /\ lp = "draft" /\ lp' = "user")
            => /\ draft = num_workouts
               /\ sessions_created' = sessions_created
               /\ u' = u + 1
       /\ (pc' = "generate" /\ u' = 0 /\ lp' = "draft")
            => /\ sessions_created' <= draft' /\ draft' <= num_workouts'
               /\ UserActivePrograms(users'[1]) = <<>>
                    => sessions_created' = draft'
      ]_vars

\* The loop of a user has ended after its n drafts, some discarded and
\* some counted.
C21_Witness ==
    /\ pc = "generate" /\ lp = "user" /\ u = 1
    /\ draft = num_workouts /\ num_workouts = 234
    /\ sessions_created > 100
    /\ sessions_created < num_workouts


\* The stamp a is not later than the datetime b (a stamp has no
\* microseconds).
StampNotAfter(a, b) ==
    \/ a.day < b.day
    \/ a.day = b.day /\ SecondsOfDay(a) <= SecondsOfDay(b)

\* The datetime a is not later than the stamp b.
NotAfterStamp(a, b) ==
    \/ a.day < b.day
    \/ a.day = b.day /\ SecondsOfDay(a) < SecondsOfDay(b)
    \/ a.day = b.day /\ SecondsOfDay(a) = SecondsOfDay(b) /\ a.microsecond = 0

\* C22: the started_at of every session lies between the time of the run
\* minus 365 days and the time of the run, with its hour in 6..20 and its
\* minute in 0..59.
C22_StartedAtWithinHorizon ==
    session_obj # NoValue =>
        /\ NotAfterStamp(PlusDays(now, 0 - 365), session_obj.started_at)
        /\ StampNotAfter(session_obj.started_at, now)
        /\ session_obj.started_at.hour \in 6..20
        /\ session_obj.started_at.minute \in 0..59


\* C23: a program-based session does not start before the start_date of
\* its assignment, and its prog_week_index is not negative.
C23_NoSessionBeforeStart ==
    IsProgramBased(session_obj) =>
        /\ DaysSinceStart(session_obj) >= 0
        /\ session_obj.prog_week_index[1] >= 0


\* The number of the weekday of the calendar day under the numbering of
\* ProgramEntry.day_of_week, 0 = Sunday, 1 = Monday, ..., 6 = Saturday
\* (day 1 of the calendar is a Monday).
ModelDayNumber(day) == day % 7

\* C24: a program-based session that uses an entry stored with 1, the
\* model's number for Monday, starts on a Monday, and its prog_day_of_week
\* is the model's number of the weekday of started_at.
C24_ModelDayNumbering ==
    (IsProgramBased(session_obj) /\ Truthy(day_exercises)) =>
        /\ \A i \in 1..Len(day_exercises) :
              day_exercises[i].day_of_week = 1
                 => ModelDayNumber(session_obj.started_at.day) = 1
        /\ session_obj.prog_day_of_week[1]
             = ModelDayNumber(session_obj.started_at.day)


\* The sessions the run has stored so far.
SessionsStored == committed.sessions - at_start.sessions

\* C25: every stored session of the run owns the sets generated for it
\* (the catalogs are not empty, so each session has some), the transaction
\* never holds more than 100 sessions, between two drafts it holds the
\* sessions counted since the last multiple of 100, and what a failure of
\* the synthesizer drops is the transaction: the stored sessions are then a
\* multiple of 100.
C25_CommitsBetweenSessions ==
    /\ SessionsStored = committed.sets - at_start.sets
    /\ pending.sessions <= 100
    /\ pending.sets <= pending.sessions
    /\ (pc = "generate" /\ lp \in {"user", "draft"})
          => /\ pending.sessions = sessions_created % 100
             /\ pending.sets = pending.sessions
             /\ SessionsStored = sessions_created - pending.sessions
    /\ (pc = "except" /\ pending.sessions > 0) => SessionsStored % 100 = 0

\* The commit of the second checkpoint has failed: the transaction holds
\* 100 sessions with their sets, 100 are stored.
C25_Witness ==
    /\ pc = "except"
    /\ pending.sessions = 100 /\ pending.sets = 100
    /\ SessionsStored = 100


\* The three program columns of the session s are all set or all empty.
ProgramColumnsAgree(s) ==
    \/ s.user_program_id # None /\ s.prog_week_index # None
                                /\ s.prog_day_of_week # None
    \/ s.user_program_id = None /\ s.prog_week_index = None
                                /\ s.prog_day_of_week = None

\* C26: the three program columns of a session are all set or all empty;
\* when the exercises of its sets are chosen, a session with the columns
\* set gets the exercises of the entries its program has on its day, and
\* a session with the columns empty gets a sample of distinct exercises of
\* the catalog, also when an earlier draft has left its day entries behind.
C26_ProgramColumnsMatchSets ==
    [][/\ session_obj' # NoValue => ProgramColumnsAgree(session_obj')
       /\ (pc = "generate" /\ lp = "sets" /\ lp' = "exercise")
            => IF IsProgramBased(session_obj)
               THEN /\ Len(work') = Cardinality(ScheduledPlaces)
                    /\ Ids(work') = ExerciseIds(day_exercises)
                    /\ \A i \in 1..Len(day_exercises) :
                          /\ day_exercises[i].program_id
                               = AssignmentOf(session_obj).program_id
                          /\ day_exercises[i].day_of_week
                               = session_obj.prog_day_of_week[1]
               ELSE /\ NoDup(Ids(work'))
                    /\ Len(work') = Min(3, Len(exercises))
                    /\ Range(work') \subseteq Range(exercises)
      ]_vars

\* A freeform session has got its sets while day_exercises still holds the
\* entries an earlier draft found.
C26_Witness ==
    /\ pc = "generate" /\ lp = "count"
    /\ session_obj # NoValue /\ ~IsProgramBased(session_obj)
    /\ Truthy(day_exercises)
    /\ Cardinality(ExercisesWithSets) = 3


\* C27: when the synthesizer returns, the transaction is empty, the
\* sessions the run has stored are as many as it has counted, each with its
\* sets, and the return was preceded by a commit; nothing is in the
\* transaction while the summary is made.
C27_NothingLeftUncommitted ==
    [][/\ (pc = "generate" /\ pc' = "summary")
            => /\ pending' = EmptyTables
               /\ commits' = commits + 1
               /\ committed'.sessions - at_start'.sessions = sessions_created
               /\ committed'.sets - at_start'.sets = sessions_created
               /\ committed'.sessions = committed.sessions + pending.sessions
               /\ committed'.sets = committed.sets + pending.sets
       /\ pc' = "summary" => pending' = EmptyTables
      ]_vars

\* The synthesizer has returned with a number of sessions stored that is
\* more than 100 and no multiple of 100.
C27_Witness ==
    /\ pc = "summary"
    /\ SessionsStored > 100
    /\ SessionsStored % 100 # 0
    /\ pending = EmptyTables

====
